---- MODULE Spec2Model ----
(***************************************************************************)
(* tritongrader: the execution pipeline (Autograder), its test-case state  *)
(* machine (CustomTestCase, RealtimeTestCase, the build check), the two    *)
(* sandboxes, the realtime bulk loader and the PrairieLearn report         *)
(* formatter.                                                              *)
(*                                                                         *)
(* Spec: one Autograder is constructed (Init), the caller appends test     *)
(* cases (add_test), then Autograder.execute() runs: reference build,      *)
(* sandbox population, and one loop iteration of _execute per action.      *)
(* SpecRerun: the same with execute() called again and a working           *)
(* directory. SpecScratch: one realtime test, its scratch files and their  *)
(* removal. SpecLoader: RealtimeTestCaseBulkLoader. SpecCutter: the        *)
(* formatter's cutter. SpecFormat: execute() and export() of a report.     *)
(***************************************************************************)
EXTENDS Integers, Sequences, FiniteSets, TLC

VARIABLES
    cfg,          \* constructor arguments of the Autograder
    submission,   \* names that exist under submission_path
    test_cases,   \* Autograder.test_cases, in list order
    added,        \* number of add_test calls so far
    pc,           \* position of the caller / of Autograder.execute()
    idx,          \* position of the for loop of _execute (1-based)
    raisedBy,     \* what raised out of Autograder.execute(), "" if nothing
    refBuild,     \* outcome of the reference build, "none" if not attempted
    sandbox,      \* names present in the submission sandbox
    cwd,          \* process working directory
    execLog,      \* stamps of the test cases whose execute() was invoked, in order
    rt,           \* frame of the most recent RealtimeTestCase.execute()
    formatter,    \* attributes of the PrairielearnResultsFormatter
    text,         \* argument of the cutter call under study
    cut,          \* what that call gave: <<>> before it, <<value>> after
    results,      \* formatter.results: <<>> for None, <<report>> once set
    loader,       \* the RealtimeTestCaseBulkLoader the caller asked for
    calls         \* times the caller came back to call Autograder.execute() again

\* the pipeline's variables but test_cases, and the formatter's
pvars == <<cfg, submission, added, pc, idx, raisedBy, refBuild, sandbox, cwd,
           execLog, rt>>

fvars == <<formatter, text, cut, results>>

\* the caller's: the bulk loader and the count of execute() calls
ovars == <<loader, calls>>

vars == <<cfg, submission, test_cases, added, pc, idx, raisedBy, refBuild,
          sandbox, cwd, execLog, rt, formatter, text, cut, results, loader, calls>>

----------------------------------------------------------------------------
(* Bounds of the model *)

\* caller-added test cases per pipeline
MaxTests == 2

\* the required_files lists a pipeline is built with
RequiredFileLists == {<<>>, <<"a.c", "b.h">>}

\* point values a caller gives a test
PointValues == {1}

\* process exit statuses
ExitCodes == {0, 1}

\* stream contents: what the reference program prints, what a literal of the
\* generator says; the submitted program prints one or the other
RefOut == "r"

LitOut == "l"

Vals == {RefOut, LitOut}

DataKeys == {"stdin", "argv", "stdout", "stderr", "exitcode"}

----------------------------------------------------------------------------
(* Test cases and results *)

TestResultBase ==
    [score |-> 0, passed |-> FALSE, timed_out |-> FALSE, error |-> FALSE,
     has_run |-> FALSE]

\* TestCaseBase.__init__ followed by the subclass constructor; output is
\* CustomTestResult.output (a list of lines), stamp the add_test call that
\* inserted the test
TestCaseBase(kind, point_value, early_stop) ==
    [kind |-> kind, point_value |-> point_value, early_stop |-> early_stop,
     stamp |-> 0, result |-> TestResultBase, output |-> <<>>]

CustomTestCase(point_value, early_stop) ==
    TestCaseBase("custom", point_value, early_stop)

\* RealtimeTestCase.__init__ passes no early_stop to the base class
RealtimeTestCase(point_value) ==
    TestCaseBase("realtime", point_value, FALSE)

create_missing_files_check_test_case ==
    TestCaseBase("missing", 0, FALSE)

create_build_test_case(compile_points) ==
    TestCaseBase("build", compile_points, FALSE)

add_test_prepend(list, n, test_case) ==
    <<[test_case EXCEPT !.stamp = n + 1]>> \o list

add_test(list, n, test_case) ==
    Append(list, [test_case EXCEPT !.stamp = n + 1])

\* Autograder.__init__: the missing-files check, then the build check
InitialTests(c) ==
    LET l0 == <<>>
        l1 == IF c.missing_files_check
              THEN add_test(l0, Len(l0), create_missing_files_check_test_case)
              ELSE l0
        l2 == IF c.build_command
              THEN add_test(l1, Len(l1), create_build_test_case(c.compile_points))
              ELSE l1
    IN  l2

----------------------------------------------------------------------------
(* Frame of a realtime execution *)

\* the one element of a set of one element: The({e(x) : x \in {v}}) is e
\* of the value v, which is then worked out once
The(S) == CHOOSE x \in S : TRUE

SandboxPath(sb, name) == <<sb, name>>

\* the attributes of a RealtimeTestCase that execute() reads and writes:
\* data (keys and literal values), the expected-output paths and
\* exp_exit_status (attributes that exist only once assigned: <<>> and
\* has_exp_exit_status = FALSE until then), added_files, the result;
\* generator is what loading the generator gave,
\* files maps every scratch file created so far to its content, log lists
\* the file and process events in the order they happen, exc is the
\* exception that escaped, cwd the working directory, attachments the
\* (filename, content) pairs of data["file"]: the name, and whether the
\* content is a str
NoFrame ==
    [stamp |-> 0, exc |-> "", generator |-> "", keys |-> {}, lit_stdout |-> "", lit_stderr |-> "",
     lit_exitcode |-> 0, attachments |-> <<>>, exp_stdout_path |-> <<>>, exp_stderr_path |-> <<>>,
     has_exp_exit_status |-> FALSE, exp_exit_status |-> 0,
     ref |-> "none", sub |-> "none", files |-> <<>>, added_files |-> {},
     log |-> <<>>, cwd |-> <<>>, result |-> TestResultBase]

----------------------------------------------------------------------------
(* Values the report formatter works on *)

\* A str is modelled by the UTF-8 byte lengths of its lines, in order, and
\* by whether it ends with a line break; a bytes value by the same for its
\* decodable part plus the number of bytes that are not valid UTF-8
Str(lines, nl) == [type |-> "str", lines |-> lines, nl |-> nl, invalid |-> 0]

Bytes(lines, nl, invalid) ==
    [type |-> "bytes", lines |-> lines, nl |-> nl, invalid |-> invalid]

None == [type |-> "NoneType", lines |-> <<>>, nl |-> FALSE, invalid |-> 0]

\* PrairielearnResultsFormatter.__init__: limitsize, headsize and tailsize
\* are no attributes of the object until export() assigns them; limit is
\* the argument of that export() call
PrairielearnResultsFormatter(hide_points, verbose, html_diff) ==
    [hide_points |-> hide_points, verbose |-> verbose, html_diff |-> html_diff,
     has_limitsize |-> FALSE, limitsize |-> 0, headsize |-> 0, tailsize |-> 0,
     limit |-> 0]

\* no formatter call is under way
NoFormatter ==
    /\ formatter = PrairielearnResultsFormatter(FALSE, TRUE, FALSE)
    /\ text = None
    /\ cut = <<>>
    /\ results = <<>>

\* what the caller holds of a bulk loader: origin is "none" until one is asked
\* for, raised the exception the constructor call ended with, last the most
\* recent add() or add_list() call: its arguments, the length of the
\* pipeline's list before it and whether it returned the loader
NoLoader ==
    [origin |-> "none", raised |-> "", default_timeout |-> 0,
     last |-> [op |-> "", before |-> 0, pairs |-> <<>>, timeout |-> None,
               returned_self |-> FALSE]]

\* no loader was asked for and execute() was called at most once
NoCaller ==
    /\ loader = NoLoader
    /\ calls = 0

----------------------------------------------------------------------------
(* Construction *)

Configs ==
    [missing_files_check : BOOLEAN,
     build_command : BOOLEAN,
     compile_points : {0},
     reference_path : BOOLEAN,
     reference_build_command : BOOLEAN,
     required_files : RequiredFileLists,
     working_directory : {""}]

Range(s) == {s[i] : i \in 1..Len(s)}

Init ==
    /\ cfg \in Configs
    /\ submission \in SUBSET Range(cfg.required_files)
    /\ test_cases = InitialTests(cfg)
    /\ added = Len(test_cases)
    /\ pc = "setup"
    /\ idx = 0
    /\ raisedBy = ""
    /\ refBuild = "none"
    /\ sandbox = {}
    /\ cwd = <<"orig", "">>
    /\ execLog = <<>>
    /\ rt = NoFrame
    /\ NoFormatter
    /\ NoCaller

CallerTests == Len(test_cases) - Len(InitialTests(cfg))

\* Autograder.add_test with a CustomTestCase
AddCustomTest ==
    /\ pc = "setup"
    /\ UNCHANGED <<fvars, ovars>>
    /\ CallerTests < MaxTests
    /\ \E pv \in PointValues, es \in BOOLEAN :
          test_cases' = add_test(test_cases, added, CustomTestCase(pv, es))
    /\ added' = added + 1
    /\ UNCHANGED <<cfg, submission, pc, idx, raisedBy, refBuild, sandbox, cwd,
                   execLog, rt>>

\* Autograder.add_test with a RealtimeTestCase
AddRealtimeTest ==
    /\ pc = "setup"
    /\ UNCHANGED <<fvars, ovars>>
    /\ CallerTests < MaxTests
    /\ \E pv \in PointValues :
          test_cases' = add_test(test_cases, added, RealtimeTestCase(pv))
    /\ added' = added + 1
    /\ UNCHANGED <<cfg, submission, pc, idx, raisedBy, refBuild, sandbox, cwd,
                   execLog, rt>>

----------------------------------------------------------------------------
(* Autograder.execute(): reference build and sandbox population *)

Dir(root, wd) == <<root, wd>>

OrigDir == Dir("orig", "")

ReferenceConfigured(c) == c.reference_path /\ c.reference_build_command

BuildOutcomes == {"ok", "nonzero", "timeout"}

\* _execute_reference: returns without building unless both are configured;
\* a non-zero exit status or a timeout of the build raises
execute_reference_ignoring_failure(c, outcome) ==
    [attempted |-> c.reference_path /\ c.reference_build_command,
     exc |-> ""]

execute_reference(c, outcome) ==
    IF ~c.reference_path \/ ~c.reference_build_command
    THEN [attempted |-> FALSE, exc |-> ""]
    ELSE [attempted |-> TRUE,
          exc |-> IF outcome # "ok" THEN "Exception" ELSE ""]

\* execute(), lines 256-266: the reference phase
ExecuteReference ==
    /\ pc = "setup"
    /\ UNCHANGED <<fvars, ovars>>
    /\ \E outcome \in (IF ReferenceConfigured(cfg) THEN BuildOutcomes ELSE {"ok"}) :
          LET r == execute_reference(cfg, outcome)
          IN  /\ refBuild' = (IF r.attempted THEN outcome ELSE "none")
              /\ pc' = (IF r.exc # "" THEN "raised" ELSE "populate")
              /\ raisedBy' = (IF r.exc # "" THEN "reference" ELSE "")
              /\ cwd' = (IF r.exc # ""
                         THEN Dir("sandbox_reference", cfg.working_directory)
                         ELSE cwd)
    /\ UNCHANGED <<cfg, submission, test_cases, added, idx, sandbox, execLog, rt>>

\* Autograder.copy2sandbox: a source that is neither a file nor a directory
\* is skipped silently
copy2sandbox(sb, src, item) ==
    IF item \in src
    THEN [files |-> sb.files \cup {item}, exc |-> sb.exc]
    ELSE [files |-> sb.files, exc |-> sb.exc]

RECURSIVE CopyEach(_, _, _)
CopyEach(sb, src, items) ==
    IF items = <<>> \/ sb.exc # ""
    THEN sb
    ELSE CopyEach(copy2sandbox(sb, src, Head(items)), src, Tail(items))

copy_submission_files(sb) == CopyEach(sb, submission, cfg.required_files)

\* supplied_files keeps its default, the empty list
copy_supplied_files(sb) == CopyEach(sb, {}, <<>>)

\* execute(), lines 268-271, and _execute, lines 215-216
CopyFiles ==
    /\ pc = "populate"
    /\ UNCHANGED <<fvars, ovars>>
    /\ LET sb == copy_supplied_files(
                     copy_submission_files([files |-> sandbox, exc |-> ""]))
       IN  /\ sandbox' = sb.files
           /\ pc' = (IF sb.exc # "" THEN "raised"
                     ELSE IF test_cases = <<>> THEN "return" ELSE "loop")
           /\ raisedBy' = (IF sb.exc # "" THEN "copy" ELSE "")
    /\ idx' = 1
    /\ cwd' = Dir("sandbox", cfg.working_directory)
    /\ UNCHANGED <<cfg, submission, test_cases, added, refBuild, execLog, rt>>

----------------------------------------------------------------------------
(* _execute: one loop iteration per action *)

\* the three conditions of lines 221-231, read after test.execute()
AbortNever(c, test) == FALSE

AbortOnAnyFailure(c, test) == ~test.result.passed

Abort(c, test) ==
    \/ test.kind = "missing" /\ ~test.result.passed
    \/ test.kind = "build" /\ ~test.result.passed
    \/ test.early_stop /\ ~test.result.passed

\* test.execute() is over (line 219): exc is the exception that escaped
\* from it, "" if it returned
AfterTest(test, exc) ==
    /\ test_cases' = [test_cases EXCEPT ![idx] = test]
    /\ execLog' = Append(execLog, test.stamp)
    /\ idx' = idx
    /\ IF exc # ""
       THEN pc' = "raised" /\ raisedBy' = "test"
       ELSE pc' = "check" /\ raisedBy' = raisedBy

\* lines 221-231, then the next iteration or the end of the loop; the frame
\* of the execute() that returned is dropped
AbortRule ==
    /\ pc = "check"
    /\ UNCHANGED <<fvars, ovars>>
    /\ IF Abort(cfg, test_cases[idx]) \/ idx = Len(test_cases)
       THEN pc' = "return" /\ idx' = idx
       ELSE pc' = "loop" /\ idx' = idx + 1
    /\ rt' = NoFrame
    /\ UNCHANGED <<cfg, submission, test_cases, added, raisedBy, refBuild,
                   sandbox, cwd, execLog>>

\* check_missing_files: the required names absent from submission_path
check_missing_files_all(required_files, present) ==
    [output |-> <<"Missing files">> \o required_files, passed |-> FALSE]

check_missing_files(required_files, present) ==
    LET missing_files == SelectSeq(required_files, LAMBDA f : f \notin present)
    IN  IF missing_files = <<>>
        THEN [output |-> <<"All required files have been located.">>,
              passed |-> TRUE]
        ELSE [output |-> <<"Missing files">> \o missing_files, passed |-> FALSE]

\* behaviours of a caller-supplied test_func
CustomFuncs == {"pass", "fail", "pass_scored", "raise"}

\* CustomTestCase.execute: has_run, then whatever test_func does
CustomExecute(test, func) ==
    LET t1 == [test EXCEPT !.result.has_run = TRUE]
    IN  CASE func = "pass" -> [t1 EXCEPT !.result.passed = TRUE]
          [] func = "fail" -> [t1 EXCEPT !.result.passed = FALSE]
          [] func = "pass_scored" ->
                [t1 EXCEPT !.result.passed = TRUE,
                           !.result.score = test.point_value]
          [] OTHER -> t1

MissingFilesExecute(test) ==
    LET t1 == [test EXCEPT !.result.has_run = TRUE]
        r == check_missing_files(cfg.required_files, submission)
    IN  [t1 EXCEPT !.result.passed = r.passed, !.output = r.output]

StepMissingFiles ==
    /\ pc = "loop"
    /\ UNCHANGED <<fvars, ovars>>
    /\ test_cases[idx].kind = "missing"
    /\ AfterTest(MissingFilesExecute(test_cases[idx]), "")
    /\ UNCHANGED <<cfg, submission, added, refBuild, sandbox, cwd, rt>>

StepCustom ==
    /\ pc = "loop"
    /\ UNCHANGED <<fvars, ovars>>
    /\ test_cases[idx].kind = "custom"
    /\ \E func \in CustomFuncs :
          AfterTest(CustomExecute(test_cases[idx], func),
                    IF func = "raise" THEN "Exception" ELSE "")
    /\ UNCHANGED <<cfg, submission, added, refBuild, sandbox, cwd, rt>>

\* the build check: the command's exit status is compared with 0, a timeout
\* is recorded, the score follows passed
BasicExecute(test, outcome) ==
    [test EXCEPT !.result.has_run = TRUE,
                 !.result.passed = (outcome = "ok"),
                 !.result.timed_out = (outcome = "timeout"),
                 !.result.score = IF outcome = "ok" THEN test.point_value ELSE 0]

StepBuild ==
    /\ pc = "loop"
    /\ UNCHANGED <<fvars, ovars>>
    /\ test_cases[idx].kind = "build"
    /\ \E outcome \in BuildOutcomes :
          AfterTest(BasicExecute(test_cases[idx], outcome), "")
    /\ UNCHANGED <<cfg, submission, added, refBuild, sandbox, cwd, rt>>

----------------------------------------------------------------------------
(* RealtimeTestCase.execute *)

LiteralKeys == {"stdout", "stderr", "exitcode"}

\* what loading and calling the generator does: load is "nospec" when
\* spec_from_file_location finds nothing, "nogenerate" when the module has no
\* generate; keys are the keys generate() leaves in data. A generator that
\* leaves stdin or argv unset sets no expected output either.
Generators ==
    {[load |-> l, keys |-> {}, stdout |-> "", stderr |-> "", exitcode |-> 0] :
        l \in {"nospec", "nogenerate"}}
    \cup
    {g \in [load : {"ok"}, keys : SUBSET DataKeys, stdout : {LitOut, ""},
            stderr : {LitOut, ""}, exitcode : ExitCodes] :
        /\ ("stdout" \in g.keys) <=> (g.stdout # "")
        /\ ("stderr" \in g.keys) <=> (g.stderr # "")
        /\ ("exitcode" \notin g.keys) => (g.exitcode = 0)
        /\ ~({"stdin", "argv"} \subseteq g.keys) => (g.keys \cap LiteralKeys = {})}

NoRun == [status |-> "none", stdout |-> "", stderr |-> "", exit_status |-> 0]

TimedOutRun == [NoRun EXCEPT !.status = "timeout"]

\* the runs of the reference program
ReferenceRuns ==
    {TimedOutRun} \cup
    {[status |-> "ok", stdout |-> RefOut, stderr |-> RefOut, exit_status |-> e] :
        e \in ExitCodes}

\* the runs of the submitted program
SubmissionRuns ==
    {TimedOutRun} \cup
    {[status |-> "ok", stdout |-> o, stderr |-> e, exit_status |-> x] :
        o \in Vals, e \in Vals, x \in ExitCodes}

GeneratorUsable(g) == g.load = "ok" /\ {"stdin", "argv"} \subseteq g.keys

\* write_out_err runs the reference unless all three literals are given
NeedsReference(g) == ~(LiteralKeys \subseteq g.keys)

Log(f, op, path) == [f EXCEPT !.log = Append(@, <<op, path[1], path[2]>>)]

Raise(f, e) == [f EXCEPT !.exc = e]

WriteFile(f, path, content) ==
    Log([f EXCEPT !.files = (path :> content) @@ @], "write", path)

\* load_generate_func, lines 83-106
load_generate_func(f, g) ==
    IF g.load # "ok"
    THEN Raise([f EXCEPT !.generator = g.load], "Exception")
    ELSE [f EXCEPT !.generator = g.load]

\* gen(self.data), then the checks of lines 191-196
generate(f, g) ==
    LET f1 == [f EXCEPT !.keys = g.keys, !.lit_stdout = g.stdout,
                        !.lit_stderr = g.stderr, !.lit_exitcode = g.exitcode,
                        !.attachments = IF "file" \in g.keys THEN g.file ELSE <<>>]
    IN  IF "stdin" \notin f1.keys \/ "argv" \notin f1.keys
        THEN Raise(f1, "Exception")
        ELSE f1

\* lines 120-122: open() creates the file, its path is recorded, then the
\* content is written, which raises if it is no str
write_recorded(f, path, content, is_str) ==
    LET f1 == [WriteFile(f, path, IF is_str THEN content ELSE "")
                 EXCEPT !.added_files = @ \cup {path}]
    IN  IF is_str THEN f1 ELSE Raise(f1, "TypeError")

\* lines 113-122: the attachments from the i-th on
RECURSIVE copy_attachments(_, _, _)
copy_attachments(f, sb, i) ==
    IF i > Len(f.attachments) \/ f.exc # "" THEN f
    ELSE copy_attachments(
             write_recorded(f, SandboxPath(sb, f.attachments[i].name),
                            "attachment", f.attachments[i].is_str),
             sb, i + 1)

\* copy2sandbox that keeps no record of the files it creates
rt_copy2sandbox_unrecorded(f, sb) ==
    WriteFile(f, SandboxPath(sb, "stdin"), "stdin")

\* RealtimeTestCase.copy2sandbox: the generated stdin file, then the
\* attachments
rt_copy2sandbox(f, sb) ==
    copy_attachments(write_recorded(f, SandboxPath(sb, "stdin"), "stdin", TRUE),
                     sb, 1)

\* lines 203-204: both sandboxes
copy2sandboxes(f) ==
    The({IF f1.exc # "" THEN f1 ELSE rt_copy2sandbox(f1, "sandbox_reference")
         : f1 \in {rt_copy2sandbox(f, "sandbox")}})

\* get_execute_command with capture_output: the redirection targets are
\* recorded in added_files
get_execute_command(f, sb, capture_output) ==
    IF capture_output
    THEN [f EXCEPT !.added_files = @ \cup {SandboxPath(sb, "stdout"),
                                            SandboxPath(sb, "stderr")}]
    ELSE f

\* write_out_err, lines 165-167: the reference run timed out; the shell had
\* already created the redirection targets
reference_timed_out_swallowed(f, out, err) ==
    Log(WriteFile(WriteFile(f, out, "partial"), err, "partial"),
        "timeout", SandboxPath("sandbox_reference", ""))

reference_timed_out(f, out, err) ==
    Raise(Log(WriteFile(WriteFile(f, out, "partial"), err, "partial"),
              "timeout", SandboxPath("sandbox_reference", "")),
          "Exception")

\* write_out_err, lines 137-167
write_out_err(f, r) ==
    LET out == SandboxPath("sandbox_reference", "stdout")
        err == SandboxPath("sandbox_reference", "stderr")
        f1 == [f EXCEPT !.exp_stdout_path = out, !.exp_stderr_path = err,
                        !.added_files = @ \cup {out, err}]
    IN  IF {"stdout", "stderr", "exitcode"} \subseteq f1.keys
        THEN [WriteFile(WriteFile(f1, out, f1.lit_stdout), err, f1.lit_stderr)
                EXCEPT !.has_exp_exit_status = TRUE,
                       !.exp_exit_status = f1.lit_exitcode]
        ELSE
          LET f2 == get_execute_command(f1, "sandbox_reference", TRUE)
              f3 == Log([f2 EXCEPT !.cwd = Dir("sandbox_reference", ""),
                                   !.ref = r.status],
                        "start", SandboxPath("sandbox_reference", ""))
          IN  IF r.status = "timeout"
              THEN reference_timed_out(f3, out, err)
              ELSE
                LET f4 == Log(WriteFile(WriteFile(f3, out, r.stdout),
                                        err, r.stderr),
                              "exit", SandboxPath("sandbox_reference", ""))
                    f5 == [f4 EXCEPT !.cwd = f.cwd]
                IN  IF "exitcode" \notin f5.keys
                    THEN [f5 EXCEPT !.has_exp_exit_status = TRUE,
                                    !.exp_exit_status = r.exit_status]
                    ELSE f5

\* runner.check_stdout / check_stderr: the captured stream against the
\* content of the file at path
check_stream(f, actual, path) == f.files[path] = actual

\* lines 235-237: the submission run timed out
submission_timed_out_reraised(f) ==
    Raise(Log(f, "timeout", SandboxPath("sandbox", "")), "TimeoutExpired")

submission_timed_out(f) ==
    [Log(f, "timeout", SandboxPath("sandbox", ""))
       EXCEPT !.result.timed_out = TRUE]

\* lines 221-229: the comparison; reading an attribute never assigned or a
\* file never written raises
compare(f, s, point_value) ==
    IF f.exp_stdout_path = <<>> \/ f.exp_stderr_path = <<>>
    THEN Raise(f, "AttributeError")
    ELSE
      LET f1 == Log(Log(f, "read", f.exp_stdout_path),
                    "read", f.exp_stderr_path)
      IN  IF {f.exp_stdout_path, f.exp_stderr_path} \subseteq DOMAIN f.files
          THEN
            LET stdout_check == check_stream(f1, s.stdout, f1.exp_stdout_path)
                stderr_check == check_stream(f1, s.stderr, f1.exp_stderr_path)
            IN  IF ~f1.has_exp_exit_status
                THEN Raise(f1, "AttributeError")
                ELSE
                  LET status == f1.exp_exit_status = s.exit_status
                      passed == stdout_check /\ stderr_check /\ status
                  IN  [f1 EXCEPT !.result.passed = passed,
                                 !.result.score =
                                     IF passed THEN point_value ELSE 0]
          ELSE Raise(f1, "FileNotFoundError")

\* lines 207-237: the submission run and the comparison
run_submission(f, s, point_value) ==
    LET f1 == Log([get_execute_command(f, "sandbox", FALSE)
                     EXCEPT !.cwd = Dir("sandbox", ""), !.sub = s.status],
                  "start", SandboxPath("sandbox", ""))
    IN  IF s.status = "timeout"
        THEN submission_timed_out(f1)
        ELSE compare([Log(f1, "exit", SandboxPath("sandbox", ""))
                        EXCEPT !.cwd = f.cwd],
                     s, point_value)

\* the steps of execute() in another order: the submission run first
RealtimeExecute_submission_first(test, dir, g, r, s) ==
    LET f0 == [NoFrame EXCEPT !.stamp = test.stamp, !.cwd = dir,
                              !.result = [test.result EXCEPT !.has_run = TRUE]]
        f1 == load_generate_func(f0, g)
        f2 == IF f1.exc # "" THEN f1 ELSE generate(f1, g)
        f3 == IF f2.exc # "" THEN f2 ELSE copy2sandboxes(f2)
        f4 == IF f3.exc # "" THEN f3 ELSE run_submission(f3, s, test.point_value)
        f5 == IF f4.exc # "" THEN f4 ELSE write_out_err(f4, r)
    IN  f5

\* RealtimeTestCase.execute, lines 184-237
RealtimeExecute(test, dir, g, r, s) ==
    LET f0 == [NoFrame EXCEPT !.stamp = test.stamp, !.cwd = dir,
                              !.result = [test.result EXCEPT !.has_run = TRUE]]
        f1 == load_generate_func(f0, g)
        f2 == IF f1.exc # "" THEN f1 ELSE generate(f1, g)
        f3 == IF f2.exc # "" THEN f2 ELSE copy2sandboxes(f2)
        f4 == IF f3.exc # "" THEN f3 ELSE write_out_err(f3, r)
        f5 == IF f4.exc # "" THEN f4 ELSE run_submission(f4, s, test.point_value)
    IN  f5

\* line 219 of _execute on a RealtimeTestCase whose generator is one of gens
RealtimeStep(gens) ==
    /\ pc = "loop"
    /\ UNCHANGED <<fvars, ovars>>
    /\ test_cases[idx].kind = "realtime"
    /\ \E g \in gens :
       \E r \in (IF GeneratorUsable(g) /\ NeedsReference(g)
                 THEN ReferenceRuns ELSE {NoRun}) :
       \E s \in (IF GeneratorUsable(g) /\ r.status # "timeout"
                 THEN SubmissionRuns ELSE {NoRun}) :
          \E f \in {RealtimeExecute(test_cases[idx], cwd, g, r, s)} :
              /\ rt' = f
              /\ cwd' = f.cwd
              /\ AfterTest([test_cases[idx] EXCEPT !.result = f.result], f.exc)
    /\ UNCHANGED <<cfg, submission, added, refBuild, sandbox>>

StepRealtime == RealtimeStep(Generators)

\* execute(), lines 273-274
ExecuteReturn ==
    /\ pc = "return"
    /\ UNCHANGED <<fvars, ovars>>
    /\ pc' = "done"
    /\ cwd' = OrigDir
    /\ UNCHANGED <<cfg, submission, test_cases, added, idx, raisedBy, refBuild,
                   sandbox, execLog, rt>>

----------------------------------------------------------------------------
(* Properties of the pipeline *)

N == Len(test_cases)

Finished == pc \in {"done", "raised"}

HasRun(i) == test_cases[i].result.has_run

\* an abort trigger: an executed missing-files check, build check or
\* early-stop test whose result has passed = false
IsTrigger(i) ==
    /\ HasRun(i)
    /\ ~test_cases[i].result.passed
    /\ \/ test_cases[i].kind \in {"missing", "build"}
       \/ test_cases[i].early_stop

TestByStamp(n) == CHOOSE t \in Range(test_cases) : t.stamp = n

\* C1: when Autograder.execute() has finished, every test case placed after
\* an abort trigger still has has_run = false
C1_NoTestAfterTrigger ==
    Finished =>
        \A i \in 1..N : \A j \in 1..N :
            (i < j /\ IsTrigger(i)) => ~HasRun(j)

\* a finished run in which a caller's early-stop test failed after an
\* earlier test ran, and the test after it was left unrun
C1_Witness ==
    /\ pc = "done"
    /\ \E i \in 2..N - 1 :
          /\ test_cases[i].kind = "custom" /\ test_cases[i].early_stop
          /\ IsTrigger(i)
          /\ HasRun(i - 1)
          /\ ~HasRun(i + 1)

\* C2: execute() is invoked on the test cases in the order add_test appended
\* them; the missing-files check, when enabled, is the first test executed
\* and the build check, when configured, is executed before every test the
\* caller added
C2_ExecutionOrder ==
    /\ \A k \in 1..Len(execLog) - 1 : execLog[k] < execLog[k + 1]
    /\ \A k \in 1..Len(execLog) : \E i \in 1..N : test_cases[i].stamp = execLog[k]
    /\ (cfg.missing_files_check /\ execLog # <<>>) =>
          TestByStamp(execLog[1]).kind = "missing"
    /\ \A k \in 1..Len(execLog) :
          (cfg.build_command
             /\ TestByStamp(execLog[k]).kind \in {"custom", "realtime"}) =>
                \E b \in 1..k - 1 : TestByStamp(execLog[b]).kind = "build"

\* both built-in checks and two caller tests were executed
C2_Witness ==
    /\ pc = "done"
    /\ cfg.missing_files_check /\ cfg.build_command
    /\ Len(execLog) = 4

\* C3: when execute() returns, every test up to and including the first abort
\* trigger has been executed, and all of them if there was no trigger; a
\* failure or timeout of a test that is no trigger does not stop the loop
C3_RunsUpToFirstTrigger ==
    pc = "done" =>
        \A i \in 1..N :
            (\A j \in 1..i - 1 : HasRun(j) /\ ~IsTrigger(j)) => HasRun(i)

\* a realtime test timed out, the custom test after it ran and failed without
\* early_stop, and every test of the list was executed
C3_Witness ==
    /\ pc = "done"
    /\ \E i \in 1..N - 1 :
          /\ test_cases[i].kind = "realtime"
          /\ test_cases[i].result.timed_out
          /\ test_cases[i + 1].kind = "custom"
          /\ ~test_cases[i + 1].early_stop
          /\ HasRun(i + 1) /\ ~test_cases[i + 1].result.passed
    /\ \A i \in 1..N : HasRun(i)

AbsentRequired == SelectSeq(cfg.required_files, LAMBDA f : f \notin submission)

MissingFilesScenario == cfg.missing_files_check /\ AbsentRequired # <<>>

\* C4: with the missing-files check enabled and a required file absent,
\* populating the sandbox does not raise, and an execute() that gets past the
\* reference build returns having run the missing-files test alone, which
\* has passed = false and an output listing exactly the absent files
C4_MissingFilesStopsPipeline ==
    MissingFilesScenario =>
        /\ raisedBy # "copy"
        /\ pc = "raised" => raisedBy = "reference"
        /\ pc \in {"check", "return", "done"} =>
              /\ test_cases[1].kind = "missing"
              /\ HasRun(1)
              /\ ~test_cases[1].result.passed
              /\ test_cases[1].output = <<"Missing files">> \o AbsentRequired
              /\ \A j \in 2..N : ~HasRun(j)
              /\ execLog = <<test_cases[1].stamp>>

\* one required file is there and one is not, and tests were waiting
C4_Witness ==
    /\ pc = "done"
    /\ MissingFilesScenario
    /\ submission # {}
    /\ N >= 3
    /\ HasRun(1)

ReferenceBuildFailed == refBuild \in {"nonzero", "timeout"}

\* C5: a reference build that exits non-zero or times out makes execute()
\* raise before the submission sandbox is populated and before any test is
\* executed; unless both reference_path and reference_build_command are
\* given no reference build is attempted and the tests are run
C5_ReferenceBuildFatal ==
    /\ ReferenceBuildFailed =>
          /\ ReferenceConfigured(cfg)
          /\ pc = "raised" /\ raisedBy = "reference"
          /\ sandbox = {}
          /\ execLog = <<>>
          /\ \A i \in 1..N : ~HasRun(i)
    /\ ~ReferenceConfigured(cfg) =>
          /\ refBuild = "none"
          /\ raisedBy # "reference"
          /\ (pc = "done" /\ N > 0) => HasRun(1)
    /\ (ReferenceConfigured(cfg) /\ pc # "setup") => refBuild # "none"

\* the reference build timed out while files and tests were waiting
C5_Witness ==
    /\ refBuild = "timeout"
    /\ pc = "raised"
    /\ submission # {}
    /\ N >= 2

----------------------------------------------------------------------------
(* Properties of RealtimeTestCase.execute and CustomTestCase.execute *)

RefStart == <<"start", "sandbox_reference", "">>

RefExit == <<"exit", "sandbox_reference", "">>

SubStart == <<"start", "sandbox", "">>

RefStdout == SandboxPath("sandbox_reference", "stdout")

RefStderr == SandboxPath("sandbox_reference", "stderr")

WriteOf(path) == <<"write", path[1], path[2]>>

ReadOf(path) == <<"read", path[1], path[2]>>

\* a realtime execute() took place and its frame is still there
Executed == rt.stamp # 0

\* the generator set stdin and argv and no literal expected output
NoLiterals == rt.generator = "ok" /\ rt.keys = {"stdin", "argv"}

\* C6: when the generator gives stdin and argv but no literal expected
\* output, the reference program runs in the reference sandbox and has
\* written both expected-output files there and exited before the submitted
\* program is started, and the comparison reads those two files and no other
C6_ReferenceBeforeSubmission ==
    (Executed /\ NoLiterals) =>
        /\ rt.ref # "none"
        /\ \E a \in 1..Len(rt.log) : rt.log[a] = RefStart
        /\ \A k \in 1..Len(rt.log) :
              rt.log[k] = SubStart =>
                 \E a, o, e, x \in 1..k - 1 :
                    /\ a < o /\ a < e /\ o < x /\ e < x
                    /\ rt.log[a] = RefStart
                    /\ rt.log[o] = WriteOf(RefStdout)
                    /\ rt.log[e] = WriteOf(RefStderr)
                    /\ rt.log[x] = RefExit
        /\ \A k \in 1..Len(rt.log) :
              rt.log[k][1] = "read" =>
                 /\ rt.log[k] \in {ReadOf(RefStdout), ReadOf(RefStderr)}
                 /\ \E b \in 1..k - 1 : rt.log[b] = SubStart
        /\ (rt.sub = "ok") =>
              /\ \E k \in 1..Len(rt.log) : rt.log[k] = ReadOf(RefStdout)
              /\ \E k \in 1..Len(rt.log) : rt.log[k] = ReadOf(RefStderr)
              /\ rt.files[RefStdout] = RefOut
              /\ rt.files[RefStderr] = RefOut

\* such a test ran to its comparison and passed
C6_Witness ==
    /\ Executed /\ NoLiterals
    /\ rt.ref = "ok" /\ rt.sub = "ok"
    /\ rt.result.passed

\* C7: a reference run that times out never yields a pass: the result keeps
\* passed = false and score = 0, the submitted program is not started, and
\* the exception leaves execute() and the pipeline
C7_ReferenceTimeoutNotPassed ==
    (Executed /\ rt.ref = "timeout") =>
        /\ ~rt.result.passed
        /\ rt.result.score = 0
        /\ rt.sub = "none"
        /\ \A k \in 1..Len(rt.log) : rt.log[k] # SubStart
        /\ rt.exc # ""
        /\ pc = "raised" /\ raisedBy = "test"
        /\ test_cases[idx].stamp = rt.stamp
        /\ test_cases[idx].result = rt.result

\* the reference run of the last but one test timed out
C7_Witness ==
    /\ Executed /\ rt.ref = "timeout"
    /\ pc = "raised"
    /\ idx < N

\* execute() was invoked on test i and returned
Returned(i) ==
    /\ HasRun(i)
    /\ ~(pc = "raised" /\ raisedBy = "test" /\ idx = i)

\* C8: after execute() returns, the score of a custom-function or realtime
\* test is its point_value if passed is true and 0 otherwise
C8_ScoreFollowsPassed ==
    \A i \in 1..N :
        (test_cases[i].kind \in {"missing", "custom", "realtime"} /\ Returned(i)) =>
            test_cases[i].result.score =
                (IF test_cases[i].result.passed
                 THEN test_cases[i].point_value ELSE 0)

\* C9: a submission run that times out makes execute() return with
\* timed_out = true, passed = false and score = 0 and without reading the
\* expected outputs, and unless the test is an abort trigger the loop moves
\* on to the next test
C9_SubmissionTimeout ==
    /\ (Executed /\ rt.sub = "timeout") =>
          /\ rt.exc = ""
          /\ pc = "check"
          /\ raisedBy = ""
          /\ rt.result.timed_out
          /\ ~rt.result.passed
          /\ rt.result.score = 0
          /\ \A k \in 1..Len(rt.log) : rt.log[k][1] # "read"
          /\ test_cases[idx].result = rt.result
    /\ \A i \in 1..N - 1 :
          (test_cases[i].kind = "realtime" /\ test_cases[i].result.timed_out
             /\ ~IsTrigger(i)) =>
                /\ (pc = "check" /\ idx = i) \/ idx > i
                /\ pc = "done" => HasRun(i + 1)

\* the submission of a realtime test timed out and the test after it ran
C9_Witness ==
    /\ pc = "done"
    /\ \E i \in 1..N - 1 :
          /\ test_cases[i].kind = "realtime"
          /\ test_cases[i].result.timed_out
          /\ HasRun(i + 1)

\* the generator could not be loaded, has no generate, or left stdin or argv
\* unset
GeneratorFault ==
    \/ rt.generator \in {"nospec", "nogenerate"}
    \/ ~({"stdin", "argv"} \subseteq rt.keys)

\* C10: a generator fault ends the test in the errored state (error = true,
\* passed = false) and no exception leaves execute()
C10_GeneratorFaultErrored ==
    (Executed /\ GeneratorFault) =>
        /\ rt.result.error
        /\ ~rt.result.passed
        /\ rt.exc = ""
        /\ pc # "raised"

----------------------------------------------------------------------------
(* PrairielearnResultsFormatter.cutter and the budgets of export() *)

RECURSIVE SumTo(_, _)
SumTo(s, n) == IF n = 0 THEN 0 ELSE s[n] + SumTo(s, n - 1)

Sum(s) == SumTo(s, Len(s))

RECURSIVE Digits(_)
\* len(str(n)) of an integer n
Digits(n) ==
    IF n < 0 THEN 1 + Digits(-n)
    ELSE IF n < 10 THEN 1 ELSE 1 + Digits(n \div 10)

\* len(text.encode("utf-8")): the lines, one byte for the line break between
\* two lines, one for a final line break
encode(t) ==
    Sum(t.lines) + (IF Len(t.lines) > 0 THEN Len(t.lines) - 1 ELSE 0)
                 + (IF t.nl THEN 1 ELSE 0)

\* text.splitlines()
splitlines(t) == t.lines

decode_ignore(b) == [ok |-> TRUE, text |-> Str(b.lines, b.nl)]

\* text.decode("utf-8", errors="strict"); ok is FALSE for UnicodeDecodeError
decode(b) == [ok |-> b.invalid = 0, text |-> Str(b.lines, b.nl)]

\* str(text) of a bytes object is its repr, one line: b'...' with every line
\* break written as the two characters \n and every byte that is not valid
\* UTF-8 as the four characters \xNN
str(b) ==
    Str(<<Len("b''") + Sum(b.lines)
          + Len("\\n") * (encode(b) - Sum(b.lines))
          + Len("\\xff") * b.invalid>>, FALSE)

as_text_unguarded(t) ==
    IF t.type = "bytes" /\ ~decode(t).ok
    THEN [exc |-> "UnicodeDecodeError", is_binary |-> FALSE, text |-> t]
    ELSE [exc |-> "", is_binary |-> FALSE, text |-> Str(t.lines, t.nl)]

\* lines 328-336: what text and is_binary are once a bytes argument has been
\* decoded; exc is the exception that escapes from these lines, "" for none
as_text(t) ==
    IF t.type = "bytes"
    THEN IF decode(t).ok
         THEN [exc |-> "", is_binary |-> FALSE, text |-> decode(t).text]
         ELSE [exc |-> "", is_binary |-> TRUE, text |-> str(t)]
    ELSE [exc |-> "", is_binary |-> FALSE, text |-> t]

final_prefix == "[WARN]: Binary data detected.\n"

truncated_warning == "[WARN]: Text too long, truncated.\n"

too_large == "Text is too large to display.\n"

\* an element of truncated_parts: the line of the text at index, or the
\* placeholder line "...(omitted {count} lines)..."; size is its byte length
Line(lines, i) == [kind |-> "line", index |-> i, count |-> 0, size |-> lines[i]]

placeholder(count) ==
    [kind |-> "placeholder", index |-> 0, count |-> count,
     size |-> Len("...(omitted ") + Digits(count) + Len(" lines)...")]

line_size(ln) == ln + 1

RECURSIVE head_loop(_, _, _, _)
head_loop(lines, i, acc, headsize) ==
    IF i > Len(lines) THEN Len(lines)
    ELSE IF acc + line_size(lines[i]) <= headsize
         THEN head_loop(lines, i + 1, acc + line_size(lines[i]), headsize)
         ELSE i - 1

\* len(head_lines) after the loop of lines 350-358
head_lines(lines, headsize) == head_loop(lines, 1, 0, headsize)

RECURSIVE tail_loop(_, _, _, _)
tail_loop(lines, i, acc, tailsize) ==
    IF i < 1 THEN Len(lines)
    ELSE IF acc + line_size(lines[i]) <= tailsize
         THEN tail_loop(lines, i - 1, acc + line_size(lines[i]), tailsize)
         ELSE Len(lines) - i

\* len(tail_lines) after the loop of lines 360-369
tail_lines(lines, tailsize) == tail_loop(lines, Len(lines), 0, tailsize)

\* the parts that "\n".join(part for part in truncated_parts if part != "")
\* joins: an empty line is dropped
join(parts) == SelectSeq(parts, LAMBDA p : p.size # 0)

\* byte length of "\n".join(parts)
joined_size(parts) ==
    Sum([k \in 1..Len(parts) |-> parts[k].size])
    + (IF Len(parts) > 0 THEN Len(parts) - 1 ELSE 0)

\* what a cutter call gives: raised names the exception that escaped ("" if
\* it returned); the returned string is final_prefix (if prefix), then
\* either text as it was (if not warning), or the truncation warning
\* followed by the fixed too-large message (if fallback) or by parts joined
CutReturn(prefix, warning, fallback, t, parts) ==
    [raised |-> "", prefix |-> prefix, warning |-> warning,
     fallback |-> fallback, text |-> t, parts |-> parts]

CutRaise(exc) ==
    [raised |-> exc, prefix |-> FALSE, warning |-> FALSE, fallback |-> FALSE,
     text |-> Str(<<>>, FALSE), parts |-> <<>>]

\* byte length of the string a cutter call returned
len_bytes(r) ==
    (IF r.prefix THEN Len(final_prefix) ELSE 0)
    + (IF ~r.warning THEN encode(r.text)
       ELSE Len(truncated_warning)
            + (IF r.fallback THEN Len(too_large) ELSE joined_size(r.parts)))

\* lines 371-390, for head kept first lines and tail kept last lines
truncated(self, conv, head, tail) ==
    LET lines == splitlines(conv.text)
        head_parts == [i \in 1..head |-> Line(lines, i)]
        tail_parts == [j \in 1..tail |-> Line(lines, Len(lines) - tail + j)]
        omitted_lines_count == Len(lines) - head - tail
        truncated_parts ==
            IF omitted_lines_count > 0
            THEN head_parts \o <<placeholder(omitted_lines_count)>> \o tail_parts
            ELSE head_parts \o SubSeq(tail_parts, head + 1, tail)
    IN  The({IF joined_size(final_text) > self.limitsize
             THEN CutReturn(conv.is_binary, TRUE, TRUE, Str(<<>>, FALSE), <<>>)
             ELSE CutReturn(conv.is_binary, TRUE, FALSE, Str(<<>>, FALSE), final_text)
             : final_text \in {join(truncated_parts)}})

\* lines 337-390, for the text and is_binary of lines 328-336
cut_text(self, conv) ==
    IF conv.exc # "" THEN CutRaise(conv.exc)
    ELSE IF ~self.has_limitsize THEN CutRaise("AttributeError")
    ELSE IF encode(conv.text) <= self.limitsize
    THEN CutReturn(conv.is_binary, FALSE, FALSE, conv.text, <<>>)
    ELSE The({truncated(self, conv, head, tail)
              : head \in {head_lines(splitlines(conv.text), self.headsize)},
                tail \in {tail_lines(splitlines(conv.text), self.tailsize)}})

cutter(self, t) ==
    IF t.type = "NoneType" THEN CutReturn(FALSE, FALSE, FALSE, Str(<<>>, FALSE), <<>>)
    ELSE The({cut_text(self, conv) : conv \in {as_text(t)}})

\* int(x * 0.1) for an integer x: the product is truncated towards zero
tenth(x) == IF x >= 0 THEN x \div 10 ELSE -((-x) \div 10)

\* export(), lines 410-414: the three budgets
export_sizes(self, num_tests, limit) ==
    LET estimated_size == ((limit - 10000) \div num_tests) \div 2
    IN  [self EXCEPT !.limit = limit,
                     !.has_limitsize = TRUE,
                     !.limitsize = estimated_size,
                     !.headsize = tenth(estimated_size),
                     !.tailsize = tenth(estimated_size)]

----------------------------------------------------------------------------
(* The cutter on its own: a formatter whose export() has assigned the       *)
(* budgets is handed one text                                               *)

\* lines per text
MaxLines == 3

\* byte lengths of a line
LineLens == {0, 3, 49, 1200}

\* the limit argument of export()
PayloadLimits == {9990, 10000, 10004, 10060, 10400, 12000}

\* undecodable bytes in a bytes value
InvalidBytes == {0, 1, 2}

Strs ==
    {Str(l, nl) : l \in UNION {[1..k -> LineLens] : k \in 0..MaxLines},
                  nl \in BOOLEAN}

\* "" has no line, and a text whose last line is empty ends with a line break
WellFormed(t) ==
    /\ (t.lines = <<>>) => ~t.nl
    /\ (t.lines # <<>> /\ t.lines[Len(t.lines)] = 0) => t.nl

CutterInputs ==
    LET strs == {t \in Strs : WellFormed(t)}
    IN  {None} \cup strs
        \cup {Bytes(t.lines, t.nl, k) : t \in strs, k \in InvalidBytes}

\* the pipeline is not running: no configured check, nothing executed
PipelineAt(p) ==
    /\ cfg = [missing_files_check |-> FALSE, build_command |-> FALSE,
              compile_points |-> 0, reference_path |-> FALSE,
              reference_build_command |-> FALSE, required_files |-> <<>>,
              working_directory |-> ""]
    /\ submission = {}
    /\ added = Len(test_cases)
    /\ pc = p
    /\ idx = 0
    /\ raisedBy = ""
    /\ refBuild = "none"
    /\ sandbox = {}
    /\ cwd = <<"orig", "">>
    /\ execLog = <<>>
    /\ rt = NoFrame

InitCutter ==
    /\ \E n \in 1..2 :
          test_cases = [i \in 1..n |-> [CustomTestCase(1, FALSE) EXCEPT !.stamp = i]]
    /\ PipelineAt("setup")
    /\ \E limit \in PayloadLimits :
          formatter = export_sizes(PrairielearnResultsFormatter(FALSE, TRUE, FALSE),
                                   Len(test_cases), limit)
    /\ text \in CutterInputs
    /\ cut = <<>>
    /\ results = <<>>
    /\ NoCaller

\* self.cutter(text)
CallCutter ==
    /\ cut = <<>>
    /\ cut' = <<cutter(formatter, text)>>
    /\ UNCHANGED <<pvars, test_cases, formatter, text, results, ovars>>

----------------------------------------------------------------------------
(* Claims about the cutter *)

\* the text the cutter measures and cuts: the argument itself, or what
\* lines 328-336 made of a bytes argument
Converted(t) ==
    IF t.type = "bytes"
    THEN IF t.invalid = 0 THEN Str(t.lines, t.nl) ELSE str(t)
    ELSE t

CutDone == cut # <<>> /\ cut[1].raised = ""

TooLong == text.type # "NoneType" /\ encode(Converted(text)) > formatter.limitsize

\* C11: for every text and every limit a string can meet (limit >= 0), the
\* string the cutter returns, warning prefixes and fallback message
\* included, is at most limit bytes long.
C11_CutterWithinLimit ==
    (CutDone /\ formatter.limitsize >= 0)
        => len_bytes(cut[1]) <= formatter.limitsize

PrefixSize(lines, h) == Sum(SubSeq(lines, 1, h)) + h

SuffixSize(lines, h) == Sum(SubSeq(lines, Len(lines) - h + 1, Len(lines))) + h

LongestPrefix(lines, budget) ==
    CHOOSE h \in 0..Len(lines) :
        /\ PrefixSize(lines, h) <= budget
        /\ h < Len(lines) => PrefixSize(lines, h + 1) > budget

LongestSuffix(lines, budget) ==
    CHOOSE h \in 0..Len(lines) :
        /\ SuffixSize(lines, h) <= budget
        /\ h < Len(lines) => SuffixSize(lines, h + 1) > budget

\* positions of the placeholder in the returned parts; indices of the input
\* lines the returned parts show in a set of positions
Markers(parts) == {k \in 1..Len(parts) : parts[k].kind = "placeholder"}

Shown(parts, ks) == {parts[k].index : k \in {j \in ks : parts[j].kind = "line"}}

\* C15: when the text exceeds the limit (and the fallback is not taken), the
\* output shows, in the original order, the longest prefix of lines that
\* fits the head budget, one marker, and the longest suffix that fits the
\* tail budget; the marker's count is total - head - tail, and that is the
\* number of input lines the output does not show.
C15_HeadMarkerTail ==
    (CutDone /\ cut[1].warning /\ ~cut[1].fallback) =>
        LET lines == Converted(text).lines
            n == Len(lines)
            h == LongestPrefix(lines, formatter.headsize)
            t == LongestSuffix(lines, formatter.tailsize)
            parts == cut[1].parts
        IN  /\ Cardinality(Markers(parts)) = 1
            /\ \A m \in Markers(parts) :
                  /\ parts[m].count = n - h - t
                  /\ parts[m].count = Cardinality((1..n) \ Shown(parts, 1..Len(parts)))
                  /\ Shown(parts, 1..(m - 1)) = 1..h
                  /\ Shown(parts, (m + 1)..Len(parts)) = (n - t + 1)..n
            /\ \A j, k \in 1..Len(parts) :
                  (j < k /\ parts[j].kind = "line" /\ parts[k].kind = "line")
                      => parts[j].index < parts[k].index

\* C16: with limit = 1000 and head and tail budgets of 100, a text longer
\* than the limit is rendered as its selected head lines, one marker line
\* and its selected tail lines, within 1000 bytes in all, and the fallback
\* message is not used.
C16_ThousandByteBudget ==
    (CutDone /\ TooLong /\ formatter.limitsize = 1000
       /\ formatter.headsize = 100 /\ formatter.tailsize = 100) =>
        LET lines == Converted(text).lines
            n == Len(lines)
            h == head_lines(lines, formatter.headsize)
            t == tail_lines(lines, formatter.tailsize)
        IN  /\ cut[1].warning /\ ~cut[1].fallback
            /\ cut[1].parts = [i \in 1..h |-> Line(lines, i)]
                              \o <<placeholder(n - h - t)>>
                              \o [j \in 1..t |-> Line(lines, n - t + j)]
            /\ len_bytes(cut[1]) <= 1000

----------------------------------------------------------------------------
(* Test cases as the formatter reads them *)

\* a number where None may stand instead
Num(v) == [type |-> "int", v |-> v]

\* str(n) of an integer
str_int(n) == Str(<<Digits(n)>>, FALSE)

\* TestCaseBase.__init__ and the subclass constructors: the attributes the
\* formatter reads, before execute(). runner is whether test.runner is set;
\* the streams are texts, stdout and stderr are those of the runner
NewTest(kind, point_value, hidden) ==
    [kind |-> kind, point_value |-> point_value, hidden |-> hidden,
     hidden_msg |-> IF kind = "realtime" THEN "hidden tests" ELSE "hidden test",
     timeout |-> 10,
     result |-> [score |-> Num(0), passed |-> FALSE, timed_out |-> FALSE,
                 error |-> FALSE, has_run |-> FALSE, output |-> None],
     runner |-> FALSE, command |-> None, test_input |-> None,
     expected_stdout |-> None, expected_stderr |-> None, exp_exit_status |-> 0,
     actual_stdout |-> None, actual_stderr |-> None, exit_status |-> 0]

\* what a caller-supplied test_func may do to the result
FormatterCustomFuncs == {"pass", "pass_scored", "fail"}

\* CustomTestCase.execute(): has_run, then test_func, which also leaves its
\* diagnostic text s in result.output
custom_execute(test, func, s) ==
    LET t1 == [test EXCEPT !.result.has_run = TRUE, !.result.output = s]
    IN  CASE func = "pass" -> [t1 EXCEPT !.result.passed = TRUE]
          [] func = "pass_scored" ->
                [t1 EXCEPT !.result.passed = TRUE, !.result.score = test.point_value]
          [] OTHER -> t1

\* outcomes of a run of the submitted program
RunOutcomes == {"passed", "failed", "timed_out"}

\* RealtimeTestCase.execute() that returned: the generator gave the stdin s,
\* the expected stdout is s, the program printed s (or nothing when its exit
\* status is what fails it)
realtime_execute(test, how, s) ==
    LET t1 == [test EXCEPT !.result.has_run = TRUE,
                           !.runner = TRUE,
                           !.command = Str(<<5>>, FALSE),
                           !.test_input = s,
                           !.expected_stdout = s,
                           !.expected_stderr = Str(<<>>, FALSE),
                           !.actual_stdout = s,
                           !.actual_stderr = Str(<<>>, FALSE)]
    IN  CASE how = "timed_out" -> [t1 EXCEPT !.result.timed_out = TRUE]
          [] how = "passed" ->
                [t1 EXCEPT !.result.passed = TRUE, !.result.score = test.point_value]
          [] OTHER -> [t1 EXCEPT !.exit_status = 1]

\* IOTestCase.execute(): as the realtime test, and a harness fault sets
\* result.error
io_execute(test, how, s) ==
    IF how = "error"
    THEN [realtime_execute(test, "failed", s) EXCEPT !.result.error = TRUE]
    ELSE realtime_execute(test, how, s)

\* BasicTestCase.execute(): the command ran, the runner holds its streams
basic_execute(test, how, s) ==
    [test EXCEPT !.result.has_run = TRUE,
                 !.result.passed = (how = "passed"),
                 !.result.timed_out = (how = "timed_out"),
                 !.result.score = IF how = "passed" THEN test.point_value ELSE Num(0),
                 !.runner = TRUE,
                 !.command = Str(<<5>>, FALSE),
                 !.actual_stdout = s,
                 !.actual_stderr = Str(<<>>, FALSE),
                 !.exit_status = IF how = "passed" THEN 0 ELSE 1]

----------------------------------------------------------------------------
(* PrairielearnResultsFormatter: rendering *)

\* A rendered output is a list of segments joined by "\n": a fixed line, or
\* what the cutter made of one stream of the test, or the HTML diff
Label(s) == [kind |-> "label", stream |-> "", label |-> s, size |-> Len(s), cut |-> <<>>]

Cut(self, stream, t) ==
    The({[kind |-> "cut", stream |-> stream, label |-> "", size |-> len_bytes(r),
          cut |-> <<r>>] : r \in {cutter(self, t)}})

\* f"Test case timed out with limit = {test.timeout}."
timed_out_line(test) ==
    [kind |-> "label", stream |-> "",
     label |-> "Test case timed out with limit = {test.timeout}.",
     size |-> Len("Test case timed out with limit = ") + Digits(test.timeout) + Len("."),
     cut |-> <<>>]

\* f"{status_str} in {test.runner.running_time:.2f} ms.", for a running time
\* under 10 ms
status_line(test) ==
    LET status_str == IF test.result.passed THEN "PASSED" ELSE "FAILED"
    IN  [kind |-> "label", stream |-> "", label |-> status_str,
         size |-> Len(status_str) + Len(" in 0.00 ms."), cut |-> <<>>]

not_run == "This test was not run."

error_msg == "=== Unexpected autograder runtime error!  Please notify your instructors. ==="

\* the value of a rendering: raised names the exception that escaped
Rendered(segs) ==
    The({[raised |-> IF bad = <<>> THEN "" ELSE bad[1].cut[1].raised,
          segs |-> IF bad = <<>> THEN s ELSE <<>>]
         : s \in {segs},
           bad \in {SelectSeq(segs, LAMBDA g : g.cut # <<>> /\ g.cut[1].raised # "")}})

\* return test.hidden_msg if test.hidden else output (msg for hidden_msg),
\* once output has been built
Visible(test, output, msg) ==
    The({IF o.raised # "" THEN o
         ELSE IF test.hidden THEN [raised |-> "", segs |-> <<Label(msg)>>] ELSE o
         : o \in {output}})

RenderRaise(exc) == [raised |-> exc, segs |-> <<>>]

\* byte length of a rendered output
output_size(segs) ==
    Sum([k \in 1..Len(segs) |-> segs[k].size])
    + (IF Len(segs) > 0 THEN Len(segs) - 1 ELSE 0)

\* generate_html_diff: the property actual_stdout raises without a runner,
\* as does test.runner.exit_status; the two tables are HtmlDiff's, the size
\* counted is that of the fixed parts and of the exit status
generate_html_diff(self, test) ==
    IF ~test.runner THEN RenderRaise("AttributeError")
    ELSE Rendered(<<[kind |-> "html", stream |-> "stdout, stderr", label |-> "<div>",
                     size |-> Len("<div><h2>exit status</h2>") + Digits(test.exit_status)
                              + Len("<hr><h2>stdout</h2><hr><h2>stderr</h2></div>"),
                     cut |-> <<>>]>>)

basic_io_output(self, test) ==
    IF ~test.result.has_run \/ ~test.runner THEN Rendered(<<Label(not_run)>>)
    ELSE IF test.result.error
    THEN LET output == Rendered(<<Label(error_msg),
                                  Label("=== stdout ==="),
                                  Cut(self, "actual_stdout", test.actual_stdout),
                                  Label("=== stderr ==="),
                                  Cut(self, "actual_stderr", test.actual_stderr)>>)
         IN  Visible(test, output, error_msg)
    ELSE IF test.result.timed_out
    THEN LET output == Rendered(<<timed_out_line(test),
                                  Label("=== expected stdout ==="),
                                  Cut(self, "expected_stdout", test.expected_stdout),
                                  Label("=== expected stderr ==="),
                                  Cut(self, "expected_stderr", test.expected_stderr),
                                  Label("=== expected exit status ==="),
                                  Cut(self, "exp_exit_status", str_int(test.exp_exit_status)),
                                  Label("=== your stdout ==="),
                                  Cut(self, "actual_stdout", test.actual_stdout),
                                  Label("=== your stderr ==="),
                                  Cut(self, "actual_stderr", test.actual_stderr)>>)
         IN  Visible(test, output, test.hidden_msg)
    ELSE LET s0 == <<status_line(test)>>
             s1 == IF self.verbose
                   THEN s0 \o <<Label("=== test command ==="),
                                Cut(self, "command", test.command)>>
                   ELSE s0
             s2 == IF self.verbose /\ test.test_input # None
                   THEN s1 \o <<Label("=== test input ==="),
                                Cut(self, "test_input", test.test_input)>>
                   ELSE s1
             s3 == IF self.verbose
                   THEN s2 \o <<Label("=== expected stdout ==="),
                                Cut(self, "expected_stdout", test.expected_stdout),
                                Label("=== expected stderr ==="),
                                Cut(self, "expected_stderr", test.expected_stderr),
                                Label("=== expected exit status ==="),
                                Cut(self, "exp_exit_status", str_int(test.exp_exit_status))>>
                   ELSE s2
             s4 == IF self.verbose /\ ~test.result.passed
                   THEN s3 \o <<Label("=== your stdout ==="),
                                Cut(self, "actual_stdout", test.actual_stdout),
                                Label("=== your stderr ==="),
                                Cut(self, "actual_stderr", test.actual_stderr),
                                Label("=== your exit status ==="),
                                Cut(self, "exit_status", str_int(test.exit_status))>>
                   ELSE s3
             summary == Rendered(s4)
         IN  Visible(test, summary, test.hidden_msg)

format_io_test(self, test) ==
    IF self.html_diff THEN generate_html_diff(self, test)
    ELSE basic_io_output(self, test)

\* lines 196-262 repeat lines 115-181 word for word
realtime_output(self, test) == basic_io_output(self, test)

format_realtime_test(self, test) == realtime_output(self, test)

format_basic_test(self, test) ==
    IF ~test.runner THEN Rendered(<<Label(not_run)>>)
    ELSE LET s0 == <<Label("=== test command ==="),
                     Cut(self, "command", test.command),
                     Label("=== exit status ==="),
                     Cut(self, "exit_status", str_int(test.exit_status))>>
         IN  Rendered(IF self.verbose
                      THEN s0 \o <<Label("=== stdout ==="),
                                   Cut(self, "actual_stdout", test.actual_stdout),
                                   Label("=== stderr ==="),
                                   Cut(self, "actual_stderr", test.actual_stderr)>>
                      ELSE s0)

format_custom_test(self, test) ==
    IF ~test.result.has_run THEN Rendered(<<Label(not_run)>>)
    ELSE Rendered(<<Cut(self, "output", test.result.output)>>)

\* format_test: the item of one test; max_points is None when the key is
\* left out; raised and output are those of the rendering
format_test(self, test) ==
    The({[points |-> test.result.score,
          max_points |-> test.point_value,
          raised |-> obj.raised,
          output |-> obj.segs]
         : obj \in {CASE test.kind = "io" -> format_io_test(self, test)
                      [] test.kind = "basic" -> format_basic_test(self, test)
                      [] test.kind = "custom" -> format_custom_test(self, test)
                      [] OTHER -> format_realtime_test(self, test)}})

\* sum() over numbers some of which may be None: TypeError on the first None
SumInts(s) ==
    IF \E k \in 1..Len(s) : s[k] = None
    THEN [raised |-> "TypeError", v |-> 0]
    ELSE [raised |-> "", v |-> Sum([k \in 1..Len(s) |-> s[k].v])]

get_total_score(tests) == SumInts([k \in 1..Len(tests) |-> tests[k].result.score])

\* get_full_score over the tests that were executed only
get_full_score_executed(tests) ==
    SumInts(LET with == SelectSeq(tests, LAMBDA t : t.point_value # None
                                                    /\ t.result.has_run)
            IN  [k \in 1..Len(with) |-> with[k].point_value])

get_full_score(tests) ==
    SumInts(LET with == SelectSeq(tests, LAMBDA t : t.point_value # None)
            IN  [k \in 1..Len(with) |-> with[k].point_value])

\* the quotient num / den
Quotient(num, den) == [num |-> num, den |-> den]

hide_all(self, report) ==
    IF self.hide_points
    THEN [report EXCEPT !.score = Quotient(0, 1),
                        !.tests = [k \in 1..Len(report.tests) |->
                                      [report.tests[k] EXCEPT !.points = Num(0)]]]
    ELSE report

\* lines 402-404
hide(self, report) ==
    IF self.hide_points THEN [report EXCEPT !.score = Quotient(0, 1)] ELSE report

\* execute(): what it returns and leaves in self.results; raised names the
\* exception that escaped, and then nothing was assigned
execute(self, tests) ==
    LET none == [raised |-> "", score |-> Quotient(0, 1), tests |-> <<>>]
    IN  The({IF total.raised # "" THEN [none EXCEPT !.raised = total.raised]
             ELSE IF full.raised # "" THEN [none EXCEPT !.raised = full.raised]
             ELSE IF full.v = 0 THEN [none EXCEPT !.raised = "ZeroDivisionError"]
             ELSE The({IF \E k \in 1..Len(items) : items[k].raised # ""
                       THEN [none EXCEPT !.raised =
                                SelectSeq(items, LAMBDA it : it.raised # "")[1].raised]
                       ELSE hide(self, [raised |-> "",
                                        score |-> Quotient(total.v, full.v),
                                        tests |-> items])
                       : items \in {[k \in 1..Len(tests) |-> format_test(self, tests[k])]}})
             : total \in {get_total_score(tests)}, full \in {get_full_score(tests)}})

----------------------------------------------------------------------------
(* The formatter over executed pipelines: export() of a report *)

\* tests in a report
TestCounts == {1, 2}

\* the limit argument of export()
ExportLimits == {12000, 40000}

\* what a test reads and prints: one long line
StreamTexts == {Str(<<15000>>, FALSE)}

\* point_value of a test: none, no point (as the missing-files check), or
\* one point
ReportPointValues == {None, Num(0), Num(1)}

\* the test cases of a pipeline that has run, as execute() leaves them
TestObjects ==
    UNION {
        LET custom == NewTest("custom", pv, h)
            realtime == NewTest("realtime", pv, h)
            io == NewTest("io", pv, h)
            basic == NewTest("basic", pv, h)
        IN  {custom, realtime, io, basic}
            \cup {custom_execute(custom, f, s) : f \in FormatterCustomFuncs, s \in StreamTexts}
            \cup {realtime_execute(realtime, how, s) : how \in RunOutcomes, s \in StreamTexts}
            \cup {io_execute(io, how, s) : how \in RunOutcomes \cup {"error"}, s \in StreamTexts}
            \cup {basic_execute(basic, how, s) : how \in RunOutcomes, s \in StreamTexts}
        : pv \in ReportPointValues, h \in BOOLEAN}

\* what an abort leaves of three tests: one that passed, the visible test
\* whose failure stopped the loop, one that was never reached
AbortedLists ==
    {t \in TestObjects : t.result.has_run /\ t.result.passed /\ ~t.hidden}
    \X {t \in TestObjects : /\ t.result.has_run /\ ~t.result.passed /\ ~t.hidden
                             /\ t.kind \in {"custom", "basic"}
                             /\ t.point_value # None}
    \X {t \in TestObjects : ~t.result.has_run /\ ~t.hidden}

InitFormat ==
    /\ test_cases \in UNION {[1..n -> TestObjects] : n \in TestCounts} \cup AbortedLists
    /\ PipelineAt("done")
    /\ \E h \in BOOLEAN, d \in BOOLEAN :
          formatter = PrairielearnResultsFormatter(h, TRUE, d)
    /\ text = None
    /\ cut = <<>>
    /\ results = <<>>
    /\ NoCaller

\* export(path, limit): the budgets, then execute(), whose report is dumped
Export ==
    /\ results = <<>>
    /\ \E limit \in ExportLimits :
          /\ formatter' = export_sizes(formatter, Len(test_cases), limit)
          /\ results' = <<execute(formatter', test_cases)>>
    /\ UNCHANGED <<pvars, test_cases, text, cut, ovars>>

\* execute() called on the formatter as constructed, without export()
Execute ==
    /\ results = <<>>
    /\ results' = <<execute(formatter, test_cases)>>
    /\ UNCHANGED <<pvars, test_cases, formatter, text, cut, ovars>>

----------------------------------------------------------------------------
(* Claims about the report *)

Reported == results # <<>> /\ results[1].raised = ""

\* every test of the report renders: no format_test call raises
Renders == \A k \in 1..Len(test_cases) : format_test(formatter, test_cases[k]).raised = ""

\* the tests that carry a point value
Pointed == SelectSeq(test_cases, LAMBDA t : t.point_value # None)

\* C12: once export(path, limit) has set the per-test budget to
\* (limit - 10000) // n // 2, the byte lengths of the rendered outputs of
\* the n tests add up to at most limit, whatever the outcomes of the tests
\* and however many of their streams overflow (plain-text rendering).
C12_ReportWithinPayloadLimit ==
    (Reported /\ formatter.has_limitsize /\ ~formatter.html_diff) =>
        Sum([k \in 1..Len(results[1].tests) |-> output_size(results[1].tests[k].output)])
            <= formatter.limit

\* C17: with hide_points off (and a sum of possible points that is not 0),
\* the report is built and its score is the sum of the awarded points
\* divided by the sum of the possible points, both over the tests that carry
\* a point value; a test without one contributes to neither sum.
C17_ScoreOverPointedTests ==
    (results # <<>> /\ ~formatter.hide_points /\ Renders
       /\ Sum([k \in 1..Len(Pointed) |-> Pointed[k].point_value.v]) # 0) =>
        /\ results[1].raised = ""
        /\ results[1].score.num * Sum([k \in 1..Len(Pointed) |-> Pointed[k].point_value.v])
             = Sum([k \in 1..Len(Pointed) |-> Pointed[k].result.score.v]) * results[1].score.den

\* C18: hide_points changes the top-level score, which becomes 0, and
\* nothing else: every per-test entry (points, max_points, output) is what
\* it is with hide_points off, and no test case is changed by the formatter.
C18_HidePointsOnlyScore ==
    /\ [](results # <<>> /\ formatter.hide_points =>
            \A shown \in {execute([formatter EXCEPT !.hide_points = FALSE], test_cases)} :
                IF shown.raised # ""
                THEN results[1] = shown
                ELSE /\ results[1].raised = ""
                     /\ results[1].score = Quotient(0, 1)
                     /\ results[1].tests = shown.tests)
    /\ [][test_cases' = test_cases]_vars

C18_Witness ==
    /\ Reported
    /\ formatter.hide_points
    /\ results[1].score = Quotient(0, 1)
    /\ \E k \in 1..Len(test_cases) :
          /\ test_cases[k].result.score = Num(1)
          /\ results[1].tests[k].points = Num(1)
          /\ results[1].tests[k].max_points = Num(1)

\* C19: a hidden test that was executed, of any kind, in plain and in HTML
\* diff mode, whatever its outcome, is rendered as its hidden placeholder
\* message and nothing else: none of its captured or expected streams.
C19_HiddenShowsPlaceholder ==
    Reported =>
        \A k \in 1..Len(test_cases) :
            (test_cases[k].hidden /\ test_cases[k].result.has_run) =>
                results[1].tests[k].output = <<Label(test_cases[k].hidden_msg)>>

\* C20: a test the pipeline never reached (has_run is false) is rendered
\* as "This test was not run." with 0 points, for every kind of test and in
\* both modes, and formatting it does not raise.
C20_NotRunPlaceholder ==
    results # <<>> =>
        \A k \in 1..Len(test_cases) :
            ~test_cases[k].result.has_run =>
                \A item \in {format_test(formatter, test_cases[k])} :
                    /\ item.raised = ""
                    /\ item.output = <<Label(not_run)>>
                    /\ item.points = Num(0)

----------------------------------------------------------------------------
(* RealtimeTestCaseBulkLoader *)

\* tests a loader may append
MaxLoaderTests == 3

\* default_timeout arguments; 3 is the default of
\* Autograder.realtime_tests_bulk_loader
LoaderTimeouts == {3, 7}

\* timeout arguments of add() and add_list(): none, or 4 seconds
AddTimeouts == {None, Num(4)}

\* name and point_value of a test
LoaderPairs == {"a", "b"} \X {1, 2}

\* the list argument of add_list(): (name, point value) pairs
PairLists ==
    UNION {[1..n -> LoaderPairs] : n \in 0..2}

\* the parameters of RealtimeTestCaseBulkLoader.__init__ besides self
LoaderParameters == {"autograder", "generator", "prefix", "default_timeout", "interpreter"}

\* RealtimeTestCaseBulkLoader(**kwargs): a keyword that names no parameter
\* raises TypeError before the body runs
RealtimeTestCaseBulkLoader(origin, kwargs) ==
    IF ~(DOMAIN kwargs \subseteq LoaderParameters)
    THEN [NoLoader EXCEPT !.origin = origin, !.raised = "TypeError"]
    ELSE [NoLoader EXCEPT !.origin = origin,
                          !.default_timeout = kwargs.default_timeout]

\* Autograder.realtime_tests_bulk_loader: the keywords it passes on
realtime_tests_bulk_loader(default_timeout) ==
    RealtimeTestCaseBulkLoader("autograder",
        [autograder |-> "self", generator |-> "generator", prefix |-> "",
         binary_io |-> FALSE, default_timeout |-> default_timeout,
         interpreter |-> "self.interpreter"])

\* the RealtimeTestCase add() constructs: id and timeout go into data and
\* into the base class, the name is prefix + name (prefix left "")
LoaderTest(name, id, point_value, timeout) ==
    [id |-> id, name |-> name, timeout |-> timeout] @@ RealtimeTestCase(point_value)

\* RealtimeTestCaseBulkLoader.add: list and n are the pipeline's test_cases
\* and its count of add_test calls
add(self, list, n, name, id, point_value, timeout) ==
    add_test(list, n,
             LoaderTest(name, id, point_value,
                        IF timeout = None THEN self.default_timeout ELSE timeout.v))

\* RealtimeTestCaseBulkLoader.add_list: enumerate(test_list), id = i + 1
RECURSIVE add_list(_, _, _, _, _, _)
add_list(self, list, n, test_list, i, timeout) ==
    IF i > Len(test_list) THEN list
    ELSE add_list(self,
                  add(self, list, n, test_list[i][1], i, test_list[i][2], timeout),
                  n + 1, test_list, i + 1, timeout)

InitLoader ==
    /\ test_cases = <<>>
    /\ PipelineAt("setup")
    /\ NoFormatter
    /\ NoCaller

\* ag.realtime_tests_bulk_loader(generator, default_timeout=...)
GetLoader ==
    /\ pc = "setup"
    /\ loader.origin = "none"
    /\ \E dt \in LoaderTimeouts : loader' = realtime_tests_bulk_loader(dt)
    /\ UNCHANGED <<pvars, test_cases, fvars, calls>>

\* RealtimeTestCaseBulkLoader(ag, generator, default_timeout=...), called by
\* the caller itself
ConstructLoader ==
    /\ pc = "setup"
    /\ loader.origin = "none"
    /\ \E dt \in LoaderTimeouts :
          loader' = RealtimeTestCaseBulkLoader("caller",
                        [autograder |-> "ag", generator |-> "generator",
                         default_timeout |-> dt])
    /\ UNCHANGED <<pvars, test_cases, fvars, calls>>

\* loader.add(name, point_value=..., timeout=...); id keeps its default -1
LoaderAdd ==
    /\ pc = "setup"
    /\ loader.origin # "none" /\ loader.raised = ""
    /\ Len(test_cases) < MaxLoaderTests
    /\ \E pair \in LoaderPairs, timeout \in AddTimeouts :
          /\ test_cases' = add(loader, test_cases, added, pair[1], -1, pair[2], timeout)
          /\ loader' = [loader EXCEPT !.last =
                           [op |-> "add", before |-> Len(test_cases),
                            pairs |-> <<pair>>, timeout |-> timeout,
                            returned_self |-> TRUE]]
    /\ added' = added + 1
    /\ UNCHANGED <<cfg, submission, pc, idx, raisedBy, refBuild, sandbox, cwd,
                   execLog, rt, fvars, calls>>

\* loader.add_list(test_list, timeout=...)
LoaderAddList ==
    /\ pc = "setup"
    /\ loader.origin # "none" /\ loader.raised = ""
    /\ \E test_list \in PairLists, timeout \in AddTimeouts :
          /\ Len(test_cases) + Len(test_list) <= MaxLoaderTests
          /\ test_cases' = add_list(loader, test_cases, added, test_list, 1, timeout)
          /\ added' = added + Len(test_list)
          /\ loader' = [loader EXCEPT !.last =
                           [op |-> "add_list", before |-> Len(test_cases),
                            pairs |-> test_list, timeout |-> timeout,
                            returned_self |-> TRUE]]
    /\ UNCHANGED <<cfg, submission, pc, idx, raisedBy, refBuild, sandbox, cwd,
                   execLog, rt, fvars, calls>>

----------------------------------------------------------------------------
(* Claims about the bulk loader *)

\* the tests the last add() or add_list() call appended
Appended == SubSeq(test_cases, loader.last.before + 1, Len(test_cases))

\* C21: Autograder.realtime_tests_bulk_loader gives a loader; add() on a
\* loader appends exactly one realtime test, with the loader's default
\* timeout when none is given; add_list() with n (name, point value) pairs
\* appends exactly n tests in list order with ids 1..n and the given point
\* values; both leave what the list held in place and return the loader.
C21_BulkLoaderAppends ==
    /\ loader.origin = "autograder" => loader.raised = ""
    /\ loader.last.op # "" =>
          /\ loader.last.returned_self
          /\ Len(Appended) = Len(loader.last.pairs)
          /\ \A k \in 1..Len(Appended) :
                /\ Appended[k].kind = "realtime"
                /\ Appended[k].name = loader.last.pairs[k][1]
                /\ Appended[k].point_value = loader.last.pairs[k][2]
                /\ Appended[k].timeout =
                      (IF loader.last.timeout = None THEN loader.default_timeout
                       ELSE loader.last.timeout.v)
                /\ loader.last.op = "add_list" => Appended[k].id = k
          /\ \A k \in 1..Len(test_cases) - 1 :
                test_cases[k].stamp < test_cases[k + 1].stamp

----------------------------------------------------------------------------
(* Autograder.execute() called again on the same pipeline *)

\* further execute() calls on one pipeline
MaxCalls == 1

\* pipelines without reference program and required files, run in the
\* sandbox root or in a working directory below it
RerunConfigs ==
    {[c EXCEPT !.working_directory = wd] :
        c \in {d \in Configs : /\ ~d.reference_path /\ ~d.reference_build_command
                               /\ d.required_files = <<>>},
        wd \in {"", "wd"}}

InitRerun ==
    /\ cfg \in RerunConfigs
    /\ submission = {}
    /\ test_cases = InitialTests(cfg)
    /\ added = Len(test_cases)
    /\ pc = "setup"
    /\ idx = 0
    /\ raisedBy = ""
    /\ refBuild = "none"
    /\ sandbox = {}
    /\ cwd = OrigDir
    /\ execLog = <<>>
    /\ rt = NoFrame
    /\ NoFormatter
    /\ NoCaller

\* execute() has returned and the caller is about to call it again: nothing
\* in execute() or _execute tells a first call from a later one
ExecuteAgain ==
    /\ pc = "done"
    /\ calls < MaxCalls
    /\ calls' = calls + 1
    /\ pc' = "setup"
    /\ idx' = 0
    /\ UNCHANGED <<cfg, submission, test_cases, added, raisedBy, refBuild,
                   sandbox, cwd, execLog, rt, fvars, loader>>

----------------------------------------------------------------------------
(* Claims about results, repeated calls and the working directory *)

Flags(result) == {x \in {"passed", "timed_out", "error"} : result[x]}

\* C22: in every state of a test case's result at most one of passed,
\* timed_out and error is true, and none of them is while has_run is false.
C22_OneTerminalState ==
    \A i \in 1..N :
        /\ Cardinality(Flags(test_cases[i].result)) <= 1
        /\ ~HasRun(i) => Flags(test_cases[i].result) = {}

\* C23: whatever the sequence of Autograder.execute() calls on a pipeline,
\* execute() is invoked on each of its test cases at most once.
C23_ExecutedAtMostOnce ==
    \A a \in 1..Len(execLog) : \A b \in 1..Len(execLog) :
        a # b => execLog[a] # execLog[b]

\* C26: every test case starts its execute() in the submission sandbox's
\* working directory, whatever the tests before it did, and the working
\* directory is that one again each time a test's execute() has returned.
C26_WorkingDirectoryKept ==
    pc \in {"loop", "check"} => cwd = Dir("sandbox", cfg.working_directory)

\* the submitted program of the realtime test ran to its end, so that
\* execute() went on to the comparison
Compared == Executed /\ rt.sub = "ok"

\* C25: for each expected value of a realtime test (stdout, stderr, exit
\* status), whatever literals the generator supplies: a value the generator
\* supplied is the one the submission is compared against, a value it did
\* not supply comes from the reference run, and the expected exit status is
\* defined when the comparison reads it.
C25_ExpectedValues ==
    Compared =>
        /\ rt.exp_stdout_path # <<>> /\ rt.exp_stdout_path \in DOMAIN rt.files
        /\ rt.exp_stderr_path # <<>> /\ rt.exp_stderr_path \in DOMAIN rt.files
        /\ rt.files[rt.exp_stdout_path] =
              (IF "stdout" \in rt.keys THEN rt.lit_stdout ELSE RefOut)
        /\ rt.files[rt.exp_stderr_path] =
              (IF "stderr" \in rt.keys THEN rt.lit_stderr ELSE RefOut)
        /\ (rt.keys \cap LiteralKeys # LiteralKeys) => rt.ref = "ok"
        /\ rt.has_exp_exit_status
        /\ "exitcode" \in rt.keys => rt.exp_exit_status = rt.lit_exitcode
        /\ rt.exc = ""

----------------------------------------------------------------------------
(* Scratch files of a realtime test and their removal *)

\* the generators of Generators, without attachments and with data["file"]
\* set: one attachment, or two of which the second has a content that is no
\* str
ScratchGenerators ==
    Generators
    \cup {[file |-> fl] @@ [g EXCEPT !.keys = @ \cup {"file"}] :
            g \in {h \in Generators : GeneratorUsable(h)},
            fl \in {<<[name |-> "a.txt", is_str |-> TRUE]>>,
                    <<[name |-> "a.txt", is_str |-> TRUE],
                      [name |-> "d/b.txt", is_str |-> FALSE]>>}}

\* a pipeline in its loop, about to execute its only test, a RealtimeTestCase
InitScratch ==
    /\ test_cases = add_test(<<>>, 0, RealtimeTestCase(1))
    /\ cfg \in {c \in Configs : /\ ~c.missing_files_check /\ ~c.build_command
                                /\ ~c.reference_path /\ ~c.reference_build_command
                                /\ c.required_files = <<>>}
    /\ submission = {}
    /\ added = 1
    /\ pc = "loop"
    /\ idx = 1
    /\ raisedBy = ""
    /\ refBuild = "none"
    /\ sandbox = {}
    /\ cwd = Dir("sandbox", cfg.working_directory)
    /\ execLog = <<>>
    /\ rt = NoFrame
    /\ NoFormatter
    /\ NoCaller

\* RealtimeTestCase.execute with such a generator
StepRealtimeFiles == RealtimeStep(ScratchGenerators)

\* RealtimeTestCase.__del__, lines 170-175: every recorded path that exists
\* is removed
del(f) ==
    [f EXCEPT !.files = [p \in DOMAIN f.files \ f.added_files |-> f.files[p]]]

\* the test case is dropped after its execute() ended, by return or by
\* exception
Teardown ==
    /\ pc \in {"check", "raised"}
    /\ rt.stamp # 0
    /\ rt' = del(rt)
    /\ pc' = "deleted"
    /\ UNCHANGED <<cfg, submission, test_cases, added, idx, raisedBy, refBuild,
                   sandbox, cwd, execLog, fvars, ovars>>

Ran == SelectSeq(test_cases, LAMBDA t : t.result.has_run)

\* C27: execute() called on a constructed formatter, without a prior
\* export(), renders every test case without raising: the truncation routine
\* finds its budgets (the HTML diff of an I/O test, which calls no
\* truncation, is left aside).
C27_BudgetsDefinedBeforeExport ==
    (results # <<>> /\ ~formatter.has_limitsize) =>
        \A k \in 1..Len(test_cases) :
            ~(formatter.html_diff /\ test_cases[k].kind = "io") =>
                format_test(formatter, test_cases[k]).raised = ""

\* C28: a test that was not run counts 0 in the awarded points and its
\* point_value in the possible points: the awarded sum is that of the
\* executed tests, the possible sum that of all tests with a point value,
\* and the score of the report (hide_points off) is the first over the
\* second.
C28_SkippedTestsCount ==
    /\ \A k \in 1..Len(test_cases) :
          ~test_cases[k].result.has_run => test_cases[k].result.score = Num(0)
    /\ get_total_score(test_cases).raised = "" =>
          get_total_score(test_cases).v = Sum([k \in 1..Len(Ran) |-> Ran[k].result.score.v])
    /\ get_full_score(test_cases).v
          = Sum([k \in 1..Len(Pointed) |-> Pointed[k].point_value.v])
    /\ (Reported /\ ~formatter.hide_points) =>
          /\ results[1].score =
                Quotient(Sum([k \in 1..Len(Ran) |-> Ran[k].result.score.v]),
                         Sum([k \in 1..Len(Pointed) |-> Pointed[k].point_value.v]))
          /\ \A k \in 1..Len(test_cases) :
                ~test_cases[k].result.has_run =>
                    /\ results[1].tests[k].points = Num(0)
                    /\ results[1].tests[k].max_points = test_cases[k].point_value

\* a report over a test that passed, the test whose failure stopped the loop
\* and a skipped test worth one point: the score is 1 over 2 or over 3
C28_Witness ==
    /\ Reported /\ ~formatter.hide_points
    /\ Len(test_cases) = 3
    /\ test_cases[1].result.score = Num(1)
    /\ test_cases[2].result.has_run /\ ~test_cases[2].result.passed
    /\ ~test_cases[3].result.has_run /\ test_cases[3].point_value = Num(1)
    /\ results[1].score.num = 1
    /\ results[1].score.den \in {2, 3}

\* C29: execute() produces a report with a numeric score for every list of
\* test cases it can render and whose awarded points it can add up,
\* also when the possible points sum to 0 and when hide_points is on.
C29_ScoreForEveryList ==
    (results # <<>> /\ Renders /\ get_total_score(test_cases).raised = "") =>
        /\ results[1].raised = ""
        /\ results[1].score.num \in Int
        /\ results[1].score.den # 0

Next ==
    \/ AddCustomTest
    \/ AddRealtimeTest
    \/ ExecuteReference
    \/ CopyFiles
    \/ StepMissingFiles
    \/ StepCustom
    \/ StepBuild
    \/ StepRealtime
    \/ AbortRule
    \/ ExecuteReturn

Spec == Init /\ [][Next]_vars

NextCutter ==
    \/ CallCutter

SpecCutter == InitCutter /\ [][NextCutter]_vars

NextFormat ==
    \/ Export
    \/ Execute

SpecFormat == InitFormat /\ [][NextFormat]_vars

NextLoader ==
    \/ GetLoader
    \/ ConstructLoader
    \/ LoaderAdd
    \/ LoaderAddList

SpecLoader == InitLoader /\ [][NextLoader]_vars

NextRerun ==
    \/ Next
    \/ ExecuteAgain

SpecRerun == InitRerun /\ [][NextRerun]_vars

NextScratch ==
    \/ StepRealtimeFiles
    \/ Teardown

SpecScratch == InitScratch /\ [][NextScratch]_vars

====
